---------------------------- MODULE Spec2Model ----------------------------
(***************************************************************************)
(* The tree model core of packages/core/src/browser/tree: the tree         *)
(* registry (TreeImpl), the selection state machine (TreeSelectionState),  *)
(* the selection service (TreeSelectionServiceImpl) and the facade         *)
(* (TreeModel) that wires expansion changes to the selection.              *)
(*                                                                         *)
(* Node objects are the nodes built by MockTreeModel.MOCK_ROOT(); a node   *)
(* object is named by its id, so identity (===) and id equality coincide.  *)
(* JavaScript runs every handler to completion.  The promise returned by   *)
(* the default TreeImpl.resolveChildren is already resolved, so its        *)
(* callback runs before any later handler: the operations of Spec include  *)
(* it in the action that started the refresh.  SpecRefresh has the         *)
(* pluggable resolver of a subclass instead, whose promise settles later,  *)
(* in any order, and may reject.                                           *)
(***************************************************************************)
EXTENDS Integers, Sequences, FiniteSets, TLC

VARIABLES
    root,       \* TreeImpl._root: a node or None
    nodes,      \* TreeImpl.nodes: the ids in the index
    children,   \* CompositeTreeNode.children of every node object
    expanded,   \* ExpandableTreeNode.expanded of every expandable node object
    selected,   \* the node objects whose SelectableTreeNode.selected is true
    state,      \* TreeSelectionServiceImpl.state: its selectionStack
    lastCall,   \* the operation that ran last and its argument
    fired,      \* onSelectionChanged events fired by the operation that ran last
    events,     \* events of the TreeImpl emitters fired by the step that ran last
    promises,   \* the promises resolveChildren returned, in the order of the calls
    awaited,    \* what the promise the operation of the last step returned settles to
    navigation, \* TreeNavigationService: the visited roots and the pointer
    hidden,     \* the node objects built with 'visible: false'
    emitted     \* events of all the emitters fired by the step that ran last, in order

treeVars == <<root, nodes, children, expanded, hidden>>
vars == <<root, nodes, children, expanded, selected, state, lastCall, fired,
          events, promises, awaited, navigation, hidden, emitted>>

-----------------------------------------------------------------------------
(* Bounds of the model *)

\* longest selection stack the service may hold under Spec
MaxStack == 3
\* longest selection stack the service may hold under SpecFixture
MaxFixtureStack == 4
\* most promises resolveChildren returns under SpecRefresh
MaxPromises == 3
\* longest navigation history under SpecNavigate
MaxHistory == 3

-----------------------------------------------------------------------------
(* The node objects: MockTreeModel.MOCK_ROOT() *)

None == "undefined"

Nodes == {"1", "1.1", "1.1.1", "1.1.2", "1.2", "1.2.1", "1.2.1.1", "1.2.1.2",
          "1.2.2", "1.2.3", "1.3"}

\* the children each node object is built with
MOCK_ROOT ==
    [n \in Nodes |->
        CASE n = "1"     -> <<"1.1", "1.2", "1.3">>
          [] n = "1.1"   -> <<"1.1.1", "1.1.2">>
          [] n = "1.2"   -> <<"1.2.1", "1.2.2", "1.2.3">>
          [] n = "1.2.1" -> <<"1.2.1.1", "1.2.1.2">>
          [] OTHER       -> <<>>]

\* node.parent, set at construction and never reassigned
parent ==
    [n \in Nodes |->
        IF \E p \in Nodes : \E i \in DOMAIN MOCK_ROOT[p] : MOCK_ROOT[p][i] = n
        THEN CHOOSE p \in Nodes : \E i \in DOMAIN MOCK_ROOT[p] : MOCK_ROOT[p][i] = n
        ELSE None]

\* ExpandableTreeNode.is: toTreeNode gives 'expanded' to the nodes built with children
ExpandableNodes == {n \in Nodes : MOCK_ROOT[n] # <<>>}

\* SelectableTreeNode.is: every node built by toTreeNode has 'selected'
SelectableTreeNode_is(n) == n \in Nodes

\* TreeNode.isVisible: a node is visible unless it was built with 'visible: false'
TreeNode_isVisible(n) == n \in Nodes /\ n \notin hidden

\* a TreeNode built without 'children': not a CompositeTreeNode
PlainNode == "plain"

-----------------------------------------------------------------------------
(* Sequences as JavaScript arrays *)

Range(s) == {s[i] : i \in DOMAIN s}

Reverse(s) == [i \in 1..Len(s) |-> s[Len(s) + 1 - i]]

Front(s) == SubSeq(s, 1, Len(s) - 1)

Min(S) == CHOOSE i \in S : \A j \in S : i <= j

Max(S) == CHOOSE i \in S : \A j \in S : j <= i

\* Array.indexOf, 1-based; 0 stands for -1
IndexOf(s, x) ==
    IF x \in Range(s) THEN CHOOSE i \in DOMAIN s : s[i] = x /\ \A j \in 1..(i-1) : s[j] # x
    ELSE 0

\* the array without the elements at the indices in drop
RECURSIVE DropIndices(_, _)
DropIndices(s, drop) ==
    IF s = <<>> THEN <<>>
    ELSE LET rest == DropIndices(SubSeq(s, 1, Len(s) - 1), drop)
         IN IF Len(s) \in drop THEN rest ELSE Append(rest, s[Len(s)])

\* the array as it is, duplicates included
asGiven(s) == s

\* Array.from(new Set(s).keys()): first occurrences, in order
RECURSIVE Unique(_)
Unique(s) ==
    IF s = <<>> THEN <<>>
    ELSE LET init == Unique(SubSeq(s, 1, Len(s) - 1))
         IN IF s[Len(s)] \in Range(init) THEN init ELSE Append(init, s[Len(s)])

-----------------------------------------------------------------------------
(* TreeImpl: the registry.  A tree value is the record of the fields the   *)
(* operators read: [root, nodes, children, expanded].                      *)

\* TreeImpl.validateNode / getNode: the indexed node with the same id
validateNode(tree, n) == IF n \in tree.nodes THEN n ELSE None

\* CompositeTreeNode.is: the node object has 'children'
CompositeTreeNode_is(n) == n \in Nodes

\* the ids of node n and of everything below it through the children ch
RECURSIVE subtreeIds(_, _)
subtreeIds(ch, n) ==
    IF CompositeTreeNode_is(n)
    THEN {n} \cup UNION {subtreeIds(ch, ch[n][i]) : i \in DOMAIN ch[n]}
    ELSE {n}

\* TreeImpl.addNode on the index idx
addNode(idx, ch, n) == IF n = None THEN idx ELSE idx \cup subtreeIds(ch, n)

\* TreeImpl.removeNode on the index idx
removeNode(idx, ch, n) == IF n = None THEN idx ELSE idx \ subtreeIds(ch, n)

\* TreeImpl.resolveChildren: the default resolver returns the children as they are
resolveChildren(tree, p) == tree.children[p]

\* TreeImpl.setChildren(p, kids)
setChildren(tree, p, kids) ==
    LET ch == [tree.children EXCEPT ![p] = kids]
    IN [tree EXCEPT !.children = ch,
                    !.nodes = addNode(removeNode(tree.nodes, tree.children, p), ch, p)]

\* TreeImpl.refresh(raw): the node whose children it resolves
refreshParent(tree, raw) == IF raw = None THEN tree.root ELSE validateNode(tree, raw)

\* TreeImpl.refresh(raw), the callback of the resolved promise included
refresh(tree, raw) ==
    LET p == refreshParent(tree, raw)
    IN IF CompositeTreeNode_is(p) THEN setChildren(tree, p, resolveChildren(tree, p))
       ELSE tree

\* a root setter that adds the new root to the index as it is
rootAssignedOnTop(tree, r) ==
    [tree EXCEPT !.root = r, !.nodes = addNode(tree.nodes, tree.children, r)]

\* TreeImpl.root setter, up to its call of refresh
rootAssigned(tree, r) ==
    [tree EXCEPT !.root = r, !.nodes = addNode({}, tree.children, r)]

\* TreeImpl.root setter
setRoot(tree, r) == refresh(rootAssigned(tree, r), None)

\* the events of the TreeImpl emitters
onChanged == [name |-> "onChanged", node |-> None]
onNodeRefreshed(p) == [name |-> "onNodeRefreshed", node |-> p]

\* TreeImpl.fireChanged
fireChanged == <<onChanged>>

\* TreeImpl.fireNodeRefreshed(p)
fireNodeRefreshed(p) == <<onNodeRefreshed(p)>> \o fireChanged

\* the events of TreeImpl.refresh with the callback of the resolved promise:
\* the call fires onChanged before it returns, the callback runs after that
refreshEvents(p) ==
    fireChanged \o (IF CompositeTreeNode_is(p) THEN fireNodeRefreshed(p) ELSE <<>>)

\* the events of the other emitters: of the selection service, of the
\* expansion service, and of the TreeModel
onSelectionChanged == [name |-> "onSelectionChanged", node |-> None]
expansionChanged(n) == [name |-> "onExpansionChanged", node |-> n]
modelChanged == [name |-> "TreeModel.onChanged", node |-> None]
onOpenNode(n) == [name |-> "onOpenNode", node |-> n]

\* TreeModel.fireChanged
TreeModel_fireChanged == <<modelChanged>>

\* a TreeModel that does not listen to the tree
relayNothing(ev) == ev

\* the events ev of the tree with those of the TreeModel, whose listener
\* calls fireChanged at each onChanged of the tree
RECURSIVE relay(_)
relay(ev) ==
    IF ev = <<>> THEN <<>>
    ELSE <<Head(ev)>> \o (IF Head(ev) = onChanged THEN TreeModel_fireChanged ELSE <<>>)
            \o relay(Tail(ev))

\* the event of the selection service when it fired, with that of the
\* TreeModel, whose listener calls fireChanged
selectionEmitted(count) ==
    IF count > 0 THEN <<onSelectionChanged>> \o TreeModel_fireChanged ELSE <<>>

\* the outcome of a promise that rejects
Rejected == "rejected"
\* the outcome of a promise that fulfils with no value
Fulfilled == "fulfilled"

\* what a promise of children settles to
Fulfils(kids) == [outcome |-> Fulfilled, children |-> kids]
Rejects == [outcome |-> Rejected, children |-> <<>>]

\* the promise of one resolveChildren(p) call: what it settles to and
\* whether it has settled
Resolution(p, result) == [parent |-> p, result |-> result, settled |-> FALSE]

\* a refresh that falls back on the root when the node is not valid
resolvingOrRoot(tree, made, raw, result) ==
    IF CompositeTreeNode_is(refreshParent(tree, raw))
    THEN Append(made, Resolution(refreshParent(tree, raw), result))
    ELSE IF CompositeTreeNode_is(tree.root)
    THEN Append(made, Resolution(tree.root, result))
    ELSE made

\* TreeImpl.refresh(raw) up to its return: the promises resolveChildren has
\* returned, the one of this call last
resolving(tree, made, raw, result) ==
    IF CompositeTreeNode_is(refreshParent(tree, raw))
    THEN Append(made, Resolution(refreshParent(tree, raw), result))
    ELSE made

\* a callback that also runs when the promise rejects, with no children
settleAnyway(tree, promise) ==
    setChildren(tree, promise.parent, promise.result.children)

\* TreeImpl.refresh: the then-callback of the promise runs when it fulfils
settle(tree, promise) ==
    IF promise.result.outcome = Rejected THEN tree
    ELSE setChildren(tree, promise.parent, promise.result.children)

\* the events fired when the promise settles
settleEvents(promise) ==
    IF promise.result.outcome = Rejected THEN <<>>
    ELSE fireNodeRefreshed(promise.parent)

\* TreeImpl.refresh returns void, whatever the promise of the children settles to
refreshReturn(outcome) == None

\* TreeModel.refresh: an async function that awaits what TreeImpl.refresh
\* returned; it rejects when that is a promise that rejects
awaitRefresh(returned) == IF returned = Rejected THEN Rejected ELSE Fulfilled

\* CompositeTreeNode.isAncestor(p, child)
RECURSIVE isAncestor(_, _)
isAncestor(p, child) ==
    IF child = None THEN FALSE
    ELSE IF parent[child] = p THEN TRUE
    ELSE isAncestor(p, parent[child])

-----------------------------------------------------------------------------
(* Tree iteration, pruning collapsed subtrees *)

\* ExpandableTreeNode.isCollapsed
isCollapsed(tree, n) == n \in ExpandableNodes /\ ~tree.expanded[n]

\* DepthFirstTreeIterator(n, {pruneCollapsed: true}): pre-order, n first
RECURSIVE DepthFirstTreeIterator(_, _)
RECURSIVE DepthFirstAll(_, _)
DepthFirstTreeIterator(tree, n) ==
    <<n>> \o (IF isCollapsed(tree, n) THEN <<>> ELSE DepthFirstAll(tree, tree.children[n]))
DepthFirstAll(tree, kids) ==
    IF kids = <<>> THEN <<>>
    ELSE DepthFirstTreeIterator(tree, Head(kids)) \o DepthFirstAll(tree, Tail(kids))

-----------------------------------------------------------------------------
(* TreeSelectionState(tree, selectionStack): a selection stack is a        *)
(* sequence of [node, type]                                                *)

DEFAULT == "DEFAULT"
TOGGLE == "TOGGLE"
RANGE == "RANGE"
\* a selection given without a type
NoType == "none"
\* a selection type that is not of the enumeration
UnexpectedType == "unexpected"

Sel(n, t) == [node |-> n, type |-> t]

\* what nextState yields when it throws
ThrownState == <<Sel(None, "Error")>>
\* what selectedNodes yields when it throws
ThrownNodes == <<"Error">>

\* a check that lets an entry without a type pass
checkNoDefaultTyped(selections) ==
    \A i \in DOMAIN selections : selections[i].type # DEFAULT

\* checkNoDefaultSelection: FALSE when it throws, which it does when an entry
\* has the type DEFAULT or none
checkNoDefaultSelection(selections) ==
    \A i \in DOMAIN selections : selections[i].type \notin {NoType, DEFAULT}

\* selectionRange: the positions of the iteration that are fromNode or toNode
rangeEnds(it, fromNode, toNode) == {i \in DOMAIN it : it[i] = fromNode \/ it[i] = toNode}

\* a loop that stops before the second end it meets
rangeWalkOpen(it, ends) ==
    IF ends = {} THEN <<>>
    ELSE SubSeq(it, Min(ends),
                IF Cardinality(ends) >= 2 THEN Min(ends \ {Min(ends)}) - 1 ELSE Len(it))

\* selectionRange: the loop pushes from the first end it meets through the
\* second one, and through the last node when it meets no second end
rangeWalk(it, ends) ==
    IF ends = {} THEN <<>>
    ELSE SubSeq(it, Min(ends), IF Cardinality(ends) >= 2 THEN Min(ends \ {Min(ends)}) ELSE Len(it))

\* selectionRange: the range is reversed when fromNode comes after toNode
rangeOrder(range, fromNode, toNode) ==
    IF IndexOf(range, fromNode) > IndexOf(range, toNode) THEN Reverse(range) ELSE range

\* selectionRange: the loop over the iteration, the reversal and the filter
rangeOver(it, fromNode, toNode) ==
    SelectSeq(rangeOrder(rangeWalk(it, rangeEnds(it, fromNode, toNode)), fromNode, toNode),
              SelectableTreeNode_is)

\* a selectionRange that takes the end for the start when there is no start
selectionRangeAlone(tree, fromNode, toNode) ==
    IF fromNode = None \/ toNode = fromNode THEN <<toNode>>
    ELSE IF tree.root = None THEN <<>>
    ELSE IF validateNode(tree, toNode) = None THEN <<>>
    ELSE IF validateNode(tree, fromNode) = None THEN <<>>
    ELSE rangeOver(DepthFirstTreeIterator(tree, tree.root), fromNode, toNode)

\* selectionRange(fromNode, toNode)
selectionRange(tree, fromNode, toNode) ==
    IF fromNode = None THEN <<>>
    ELSE IF toNode = fromNode THEN <<toNode>>
    ELSE IF tree.root = None THEN <<>>
    ELSE IF validateNode(tree, toNode) = None THEN <<>>
    ELSE IF validateNode(tree, fromNode) = None THEN <<>>
    ELSE rangeOver(DepthFirstTreeIterator(tree, tree.root), fromNode, toNode)

\* the range a RANGE entry at index i of the stack defines
rangeAt(tree, stack, i) ==
    selectionRange(tree, IF i > 1 THEN stack[i - 1].node ELSE None, stack[i].node)

\* selectedNodes: nodes.pop() when the entry before entry i is a toggle
popToggle(stack, i, acc) ==
    IF i > 1 /\ stack[i - 1].type = TOGGLE /\ acc # <<>> THEN Front(acc) ELSE acc

\* selectedNodes: the loop body for entry i, on the array acc built so far
replayEntry(tree, stack, i, acc) ==
    IF stack[i].type = RANGE THEN popToggle(stack, i, acc) \o rangeAt(tree, stack, i)
    ELSE IF stack[i].type = TOGGLE THEN Append(acc, stack[i].node)
    ELSE acc

\* selectedNodes: the array 'nodes' after the first i stack entries
RECURSIVE replayStack(_, _, _)
replayStack(tree, stack, i) ==
    IF i = 0 THEN <<>> ELSE replayEntry(tree, stack, i, replayStack(tree, stack, i - 1))

\* a selectedNodes() that lists the nodes oldest first
selectedNodesOldestFirst(tree, stack) ==
    IF ~checkNoDefaultSelection(stack) THEN ThrownNodes
    ELSE Unique(replayStack(tree, stack, Len(stack)))

\* TreeSelectionState.selectedNodes() of the state with this stack
selectedNodes(tree, stack) ==
    IF ~checkNoDefaultSelection(stack) THEN ThrownNodes
    ELSE Unique(Reverse(replayStack(tree, stack, Len(stack))))

\* a handleDefault that keeps the type of the selection
handleDefaultAsIs(stack, node) == <<Sel(node, DEFAULT)>>

\* a handleDefault that keeps the history
handleDefaultPush(stack, node) == Append(stack, Sel(node, TOGGLE))

\* handleDefault
handleDefault(stack, node) == <<Sel(node, TOGGLE)>>

\* index of the topmost RANGE entry of the stack, 0 when it has none
topRange(stack) == Max({0} \cup {i \in DOMAIN stack : stack[i].type = RANGE})

\* handleToggle: the sole entry is a toggle of node
soleToggle(stack, node) == Len(stack) = 1 /\ stack[1] = Sel(node, TOGGLE)

\* handleToggle, first loop: the RANGE entries whose range holds node
rangesHolding(tree, stack, node) ==
    {i \in DOMAIN stack : stack[i].type = RANGE /\ node \in Range(rangeAt(tree, stack, i))}

\* handleToggle, first loop: range.splice(range.indexOf(node), 1)
splice(range, node) == DropIndices(range, {IndexOf(range, node)})

\* handleToggle, first loop: range.map(node => ({ node, type: TOGGLE }))
rangeSubstitute(range) == [k \in DOMAIN range |-> Sel(range[k], TOGGLE)]

\* handleToggle, first loop: rangeSubstitute.shift()
shift(substitute) == IF substitute = <<>> THEN <<>> ELSE Tail(substitute)

\* handleToggle, first loop: the RANGE entry at index i replaced by toggles
splitRange(tree, stack, i, node) ==
    SubSeq(stack, 1, i - 1)
        \o shift(rangeSubstitute(splice(rangeAt(tree, stack, i), node)))
        \o SubSeq(stack, i + 1, Len(stack))

\* handleToggle, second loop: the toggles of node above the topmost RANGE
togglesOf(stack, node) == {i \in DOMAIN stack : i > topRange(stack) /\ stack[i].node = node}

\* a second loop that merges nothing
mergeTogglePush(stack, node) == Append(stack, Sel(node, TOGGLE))

\* handleToggle, second loop: merge with those toggles, else push a toggle
mergeToggle(stack, node) ==
    IF togglesOf(stack, node) # {} THEN DropIndices(stack, togglesOf(stack, node))
    ELSE Append(stack, Sel(node, TOGGLE))

\* handleToggle, both loops, holding being the RANGE entries that hold node
toggleWith(tree, stack, node, holding) ==
    IF holding # {} THEN splitRange(tree, stack, Max(holding), node)
    ELSE mergeToggle(stack, node)

\* handleToggle
handleToggle(tree, stack, node) ==
    IF ~checkNoDefaultSelection(stack) THEN ThrownState
    ELSE IF soleToggle(stack, node) THEN stack
    ELSE toggleWith(tree, stack, node, rangesHolding(tree, stack, node))

\* handleRange: the node of the last entry
lastSelection(stack) == IF stack = <<>> THEN None ELSE stack[Len(stack)].node

\* handleRange: the toggles above the topmost RANGE whose node is in range
togglesIn(stack, range) ==
    {i \in DOMAIN stack : i > topRange(stack) /\ stack[i].node \in Range(range)}

\* a handleRange without toRemove.shift()
shiftNothing(toRemove) == toRemove

\* handleRange: toRemove.shift() drops the index pushed first, the highest
shiftIndices(toRemove) == toRemove \ {i \in toRemove : \A j \in toRemove : j <= i}

\* handleRange: the indices of the toggles to drop
rangeToRemove(tree, stack, node) ==
    shiftIndices(togglesIn(stack, selectionRange(tree, lastSelection(stack), node)))

\* handleRange
handleRange(tree, stack, node) ==
    IF ~checkNoDefaultSelection(stack) THEN ThrownState
    ELSE IF stack # <<>> /\ stack[Len(stack)].type = RANGE
         THEN Append(Front(stack), Sel(node, RANGE))
         ELSE Append(DropIndices(stack, rangeToRemove(tree, stack, node)), Sel(node, RANGE))

\* handleToggle: the array 'copy' when the handler returns
toggleCopy(tree, stack, node) ==
    IF ~checkNoDefaultSelection(stack) \/ soleToggle(stack, node) THEN stack
    ELSE IF rangesHolding(tree, stack, node) # {}
         THEN splitRange(tree, stack, Max(rangesHolding(tree, stack, node)), node)
         ELSE DropIndices(stack, togglesOf(stack, node))

\* handleRange: the array 'copy' when the handler returns
rangeCopy(tree, stack, node) ==
    IF ~checkNoDefaultSelection(stack) THEN stack
    ELSE IF stack # <<>> /\ stack[Len(stack)].type = RANGE THEN Front(stack)
    ELSE DropIndices(stack, rangeToRemove(tree, stack, node))

\* a copy that is the array of the receiver itself
sameArray(stack, copy) == copy

\* checkNoDefaultSelection(selectionStack).slice(): the array of the receiver
\* once the handler has changed its copy of it into 'copy'
slice(stack, copy) == stack

\* nextState: the selection stack of the receiver after the call
receiver(tree, stack, selection) ==
    CASE selection.type = TOGGLE -> slice(stack, toggleCopy(tree, stack, selection.node))
      [] selection.type = RANGE  -> slice(stack, rangeCopy(tree, stack, selection.node))
      [] OTHER                   -> stack

\* nextState: a selection without a type is a DEFAULT selection
nextState(tree, stack, selection) ==
    CASE selection.type \in {DEFAULT, NoType} -> handleDefault(stack, selection.node)
      [] selection.type = TOGGLE -> handleToggle(tree, stack, selection.node)
      [] selection.type = RANGE  -> handleRange(tree, stack, selection.node)
      [] OTHER                   -> ThrownState

-----------------------------------------------------------------------------
(* TreeSelectionServiceImpl.  A service value is [state, selected, fired]: *)
(* the held stack, the nodes flagged selected, the events fired.           *)

\* difference(left, right)
difference(left, right) == SelectSeq(left, LAMBDA item : IndexOf(right, item) = 0)

\* addSelection: the argument with its type defaulted
normalize(arg) == IF arg.type = NoType THEN Sel(arg.node, DEFAULT) ELSE arg

\* an addSelection that takes every call for a change
selectionChangedAlways(toUnselect, toSelect) == TRUE

\* addSelection: whether the selection changed
selectionChanged(toUnselect, toSelect) == ~(toUnselect = <<>> /\ toSelect = <<>>)

\* a commit that does not look at the differences
commitAlways(svc, newState, toUnselect, toSelect) ==
    [state |-> newState,
     selected |-> (svc.selected \ Range(toUnselect)) \cup Range(toSelect),
     fired |-> svc.fired + 1]

\* addSelection: unselect, select, replace the state, fire the event
commit(svc, newState, toUnselect, toSelect) ==
    IF ~selectionChanged(toUnselect, toSelect) THEN svc
    ELSE [state |-> newState,
          selected |-> (svc.selected \ Range(toUnselect)) \cup Range(toSelect),
          fired |-> svc.fired + 1]

\* an addSelection that selects the added nodes and unselects none
diffNodesOneWay(svc, newState, oldNodes, newNodes) ==
    IF oldNodes = ThrownNodes THEN svc
    ELSE commit(svc, newState, <<>>, difference(newNodes, oldNodes))

\* addSelection: the two differences between the old and the new nodes
diffNodes(svc, newState, oldNodes, newNodes) ==
    IF oldNodes = ThrownNodes THEN svc
    ELSE commit(svc, newState, difference(oldNodes, newNodes), difference(newNodes, oldNodes))

\* addSelection: from the new state on
moveTo(tree, svc, newState) ==
    IF newState = ThrownState THEN svc
    ELSE diffNodes(svc, newState, selectedNodes(tree, svc.state), selectedNodes(tree, newState))

\* an addSelection that does not validate the node
validatedAnyway(tree, svc, selection) == moveTo(tree, svc, nextState(tree, svc.state, selection))

\* addSelection: from the validation of the node on
validated(tree, svc, selection) ==
    IF validateNode(tree, selection.node) = None THEN svc
    ELSE moveTo(tree, svc, nextState(tree, svc.state, selection))

\* addSelection(arg) on the service svc
addSelection(tree, svc, arg) == validated(tree, svc, normalize(arg))

-----------------------------------------------------------------------------
(* TreeModel: the facade, with the expansion service it listens to *)

Tree == [root |-> root, nodes |-> nodes, children |-> children, expanded |-> expanded]

\* the selection service at the start of an operation
Service == [state |-> state, selected |-> selected, fired |-> 0]

\* the first of the selected nodes, None when there is none
firstOf(sel) == IF sel = <<>> THEN None ELSE Head(sel)

\* TreeModel.selectedNode: the node selected last, None when nothing is selected
selectedNode(tree, stack) == firstOf(selectedNodes(tree, stack))

\* TreeModel.selectNode(n): addSelection of the bare node
selectNode(tree, svc, n) ==
    IF n = None THEN svc ELSE addSelection(tree, svc, Sel(n, NoType))

\* SelectableTreeNode.isVisible
SelectableTreeNode_isVisible(n) == SelectableTreeNode_is(n) /\ TreeNode_isVisible(n)

\* the onExpansionChanged listener of the TreeModel constructor, on the tree
\* as the expansion service left it
onExpansionChanged(tree, svc, n) ==
    IF ~tree.expanded[n] /\ isAncestor(n, selectedNode(tree, svc.state))
    THEN selectNode(tree, svc, IF SelectableTreeNode_isVisible(n) THEN n ELSE None)
    ELSE svc

\* TreeExpansionService.expandNode: set the flag, report, load the children
expandNode(tree, n) ==
    IF isCollapsed(tree, n) THEN refresh([tree EXCEPT !.expanded[n] = TRUE], n) ELSE tree

\* the events of the tree fired by TreeExpansionService.expandNode
expandEvents(tree, n) ==
    IF isCollapsed(tree, n) THEN refreshEvents(refreshParent(tree, n)) ELSE <<>>

\* TreeExpansionService.collapseNode: clear the flag, report
collapseNode(tree, n) ==
    IF n \in ExpandableNodes /\ tree.expanded[n] THEN [tree EXCEPT !.expanded[n] = FALSE]
    ELSE tree

\* ExpandableTreeNode.is: the node object has 'expanded'
ExpandableTreeNode_is(n) == n \in ExpandableNodes

\* ExpandableTreeNode.isExpanded
isExpanded(tree, n) == ExpandableTreeNode_is(n) /\ tree.expanded[n]

\* what a promise of a boolean settles to
True == "true"
False == "false"

\* what TreeExpansionService.expandNode returns: whether it expanded the node
expandedNode(tree, n) == IF isCollapsed(tree, n) THEN True ELSE False

\* what TreeExpansionService.collapseNode returns: whether it collapsed the node
collapsedNode(tree, n) == IF isExpanded(tree, n) THEN True ELSE False

\* what TreeModel.expandNode returns for the node it resolved
expandReturn(tree, n) == IF ExpandableTreeNode_is(n) THEN expandedNode(tree, n) ELSE False

\* what TreeModel.collapseNode returns for the node it resolved
collapseReturn(tree, n) == IF ExpandableTreeNode_is(n) THEN collapsedNode(tree, n) ELSE False

\* the events of TreeExpansionService.expandNode up to its return: its own,
\* which the listener of the TreeModel relays, and those of the refresh
expandCalled(tree, n) ==
    IF isCollapsed(tree, n)
    THEN <<expansionChanged(n)>> \o TreeModel_fireChanged \o relay(fireChanged)
    ELSE <<>>

\* the events of TreeExpansionService.expandNode when the children resolve
expandResolved(tree, n) ==
    IF isCollapsed(tree, n) /\ CompositeTreeNode_is(refreshParent(tree, n))
    THEN relay(fireNodeRefreshed(refreshParent(tree, n)))
    ELSE <<>>

\* the events of TreeExpansionService.expandNode
expandEmitted(tree, n) == expandCalled(tree, n) \o expandResolved(tree, n)

\* the events of TreeExpansionService.collapseNode, with those of the
\* selection when the listener of the TreeModel moved it, count being the
\* events the selection service fired
collapseEmitted(tree, n, count) ==
    IF isExpanded(tree, n)
    THEN <<expansionChanged(n)>> \o TreeModel_fireChanged \o selectionEmitted(count)
    ELSE <<>>

\* an operation that acts on the root when it is given no node
resolveNodeOrRoot(raw) == IF raw # None THEN raw ELSE root

\* the node an operation acts on when it is given raw
resolveNode(raw) == IF raw # None THEN raw ELSE selectedNode(Tree, state)

-----------------------------------------------------------------------------
(* The iterators of selectNextNode and selectPrevNode, which are given the  *)
(* selected node and walk on from it through the parent and the children    *)
(* of the node objects, not descending into collapsed nodes                 *)

\* array[i], undefined outside the array
at(s, i) == IF i \in DOMAIN s THEN s[i] ELSE None

\* CompositeTreeNode.indexOf(p, n), 1-based; 0 stands for -1
indexOf(tree, p, n) == IF n = None THEN 0 ELSE IndexOf(tree.children[p], n)

\* node.parent
parentOf(n) == IF n \in Nodes THEN parent[n] ELSE None

\* TreeNode.getPrevSibling
getPrevSibling(tree, n) ==
    IF parentOf(n) = None THEN None
    ELSE at(tree.children[parentOf(n)], indexOf(tree, parentOf(n), n) - 1)

\* TreeNode.getNextSibling
getNextSibling(tree, n) ==
    IF parentOf(n) = None THEN None
    ELSE at(tree.children[parentOf(n)], indexOf(tree, parentOf(n), n) + 1)

\* the iterators descend into n: it has children and is not a collapsed node
descends(tree, n) ==
    CompositeTreeNode_is(n) /\ ~isCollapsed(tree, n) /\ tree.children[n] # <<>>

\* the next sibling of n, or of the nearest ancestor that has one
RECURSIVE findNextSibling(_, _)
findNextSibling(tree, n) ==
    IF n = None THEN None
    ELSE IF getNextSibling(tree, n) # None THEN getNextSibling(tree, n)
    ELSE findNextSibling(tree, parentOf(n))

\* TreeNodeIterator: the node after n
doNext(tree, n) ==
    IF descends(tree, n) THEN Head(tree.children[n]) ELSE findNextSibling(tree, n)

\* the last node of the subtree of n
RECURSIVE findLastChild(_, _)
findLastChild(tree, n) ==
    IF descends(tree, n) THEN findLastChild(tree, tree.children[n][Len(tree.children[n])])
    ELSE n

\* BackwardTreeNodeIterator: the node before n
doPrev(tree, n) ==
    IF getPrevSibling(tree, n) # None THEN findLastChild(tree, getPrevSibling(tree, n))
    ELSE parentOf(n)

\* the values an iterator yields from n on, n excluded, walking at most fuel
\* nodes: forward when fwd, else backward
RECURSIVE iterate(_, _, _, _)
yield(tree, m, fwd, fuel) ==
    IF m = None THEN <<>> ELSE <<m>> \o iterate(tree, m, fwd, fuel - 1)
iterate(tree, n, fwd, fuel) ==
    IF n = None \/ fuel = 0 THEN <<>>
    ELSE yield(tree, IF fwd THEN doNext(tree, n) ELSE doPrev(tree, n), fwd, fuel)

\* new TreeNodeIterator(node, {pruneCollapsed: true})
TreeNodeIterator(tree, n) == iterate(tree, n, TRUE, Cardinality(Nodes))

\* new BackwardTreeNodeIterator(node, {pruneCollapsed: true})
BackwardTreeNodeIterator(tree, n) == iterate(tree, n, FALSE, Cardinality(Nodes))

\* a loop that stops at the first node, visible or not
firstYielded(it) == firstOf(it)

\* TreeModel.selectNextVisibleNode: the node the loop stops at, None when
\* the iterator is done before a visible node
firstVisible(it) == firstOf(SelectSeq(it, SelectableTreeNode_isVisible))

\* TreeModel.selectNextVisibleNode(iterator): the node is selected when the
\* loop stopped at one
selectNextVisibleNode(tree, svc, it) ==
    IF firstVisible(it) = None THEN svc ELSE selectNode(tree, svc, firstVisible(it))

\* a getVisibleParent that answers the parent, visible or not
getParent(n) == parentOf(n)

\* SelectableTreeNode.getVisibleParent
RECURSIVE getVisibleParent(_)
getVisibleParent(n) ==
    IF n = None THEN None
    ELSE IF SelectableTreeNode_isVisible(parentOf(n)) THEN parentOf(n)
    ELSE getVisibleParent(parentOf(n))

\* TreeModel.selectParent, node being the selected node
selectParent(tree, svc, node) ==
    IF getVisibleParent(node) = None THEN svc
    ELSE selectNode(tree, svc, getVisibleParent(node))

-----------------------------------------------------------------------------
(* TreeNavigationService: the history of the roots navigated to.  A         *)
(* navigation value is [nodes, index]: the visited nodes and the position   *)
(* of the current one, 0 when there is none.                                *)

TreeNavigationService == [nodes |-> <<>>, index |-> 0]

\* push(node): drop the forward history, append the node, make it current
push(nav, node) ==
    [nodes |-> Append(SubSeq(nav.nodes, 1, nav.index), node), index |-> nav.index + 1]

\* next, prev: the nodes after and before the current one, None at the bounds
next(nav) == IF nav.index + 1 \in DOMAIN nav.nodes THEN nav.nodes[nav.index + 1] ELSE None
prev(nav) == IF nav.index - 1 \in DOMAIN nav.nodes THEN nav.nodes[nav.index - 1] ELSE None

\* advance, retreat: move the pointer unless it is at the bound
advance(nav) == IF next(nav) = None THEN nav ELSE [nav EXCEPT !.index = nav.index + 1]
retreat(nav) == IF prev(nav) = None THEN nav ELSE [nav EXCEPT !.index = nav.index - 1]

\* a canNavigateForward that looks at prev
canNavigateForwardPrev(nav) == prev(nav) # None

\* TreeModel.canNavigateForward
canNavigateForward(nav) == next(nav) # None

\* a canNavigateBackward that looks at next
canNavigateBackwardNext(nav) == next(nav) # None

\* TreeModel.canNavigateBackward
canNavigateBackward(nav) == prev(nav) # None

\* TreeModel.doNavigate(node), the tree: the node is made the root and, when
\* it is expandable, expanded
navigatedTree(tree, node) ==
    IF node \in ExpandableNodes THEN expandNode(setRoot(tree, node), node)
    ELSE setRoot(tree, node)

\* the events of the tree fired by TreeModel.doNavigate(node)
navigateEvents(tree, node) ==
    refreshEvents(node)
        \o (IF node \in ExpandableNodes THEN expandEvents(setRoot(tree, node), node)
            ELSE <<>>)

\* a doNavigate that selects nothing
navigatedUnselected(tree, svc, node) == svc

\* TreeModel.doNavigate(node), the selection, on the tree as it was left: the
\* node is selected when it is selectable
navigatedService(tree, svc, node) ==
    IF SelectableTreeNode_is(node) THEN selectNode(tree, svc, node) ELSE svc

\* TreeModel.navigateTo(node), the history
navigatedHistory(nav, node) == IF node = None THEN nav ELSE push(nav, node)

-----------------------------------------------------------------------------
(* The state after construction, and the operations *)

Call(op, n, t) == [op |-> op, node |-> n, type |-> t]

Init ==
    /\ root = None
    /\ nodes = {}
    /\ children = MOCK_ROOT
    /\ expanded = [n \in ExpandableNodes |-> TRUE]
    /\ selected = {}
    /\ state = <<>>
    /\ lastCall = Call("new", None, NoType)
    /\ fired = 0
    /\ events = <<>>
    /\ promises = <<>>
    /\ awaited = None
    /\ navigation = TreeNavigationService
    /\ hidden = {}
    /\ emitted = <<>>

SetTree(t) ==
    /\ root' = t.root
    /\ nodes' = t.nodes
    /\ children' = t.children
    /\ expanded' = t.expanded
    /\ UNCHANGED hidden

SetService(svc) ==
    /\ state' = svc.state
    /\ selected' = svc.selected
    /\ fired' = svc.fired

\* the step fired the events ev of the tree; it returned no promise of a
\* refresh and left no promise to settle
Fired(ev) ==
    /\ events' = ev
    /\ awaited' = None
    /\ UNCHANGED <<promises, navigation>>

\* the step left the events of the tree and of the selection service with
\* the listeners of the TreeModel
Relayed == emitted' = relay(events') \o selectionEmitted(fired')

\* the step fired the events ev of the tree and its promise settles to ret
Returned(ev, ret) ==
    /\ events' = ev
    /\ awaited' = ret
    /\ UNCHANGED <<promises, navigation>>

\* model.root = r
SetRoot(r) ==
    /\ SetTree(setRoot(Tree, r))
    /\ SetService(Service)
    /\ Fired(refreshEvents(r))
    /\ Relayed
    /\ lastCall' = Call("root", r, NoType)

\* model.refresh(raw)
Refresh(raw) ==
    /\ SetTree(refresh(Tree, raw))
    /\ SetService(Service)
    /\ events' = refreshEvents(refreshParent(Tree, raw))
    /\ awaited' = awaitRefresh(refreshReturn(Fulfilled))
    /\ UNCHANGED <<promises, navigation>>
    /\ Relayed
    /\ lastCall' = Call("refresh", raw, NoType)

\* the expansion service left the tree as t; when it changed node n, it fired
\* onExpansionChanged(n)
Expansion(t, n) ==
    /\ SetTree(t)
    /\ SetService(IF t # Tree THEN onExpansionChanged(t, Service, n) ELSE Service)

\* expansionService.expandNode(n), n checked to be expandable
Expand(n) == Expansion(IF n \in ExpandableNodes THEN expandNode(Tree, n) ELSE Tree, n)

\* expansionService.collapseNode(n), n checked to be expandable
Collapse(n) == Expansion(IF n \in ExpandableNodes THEN collapseNode(Tree, n) ELSE Tree, n)

\* model.expandNode(raw)
ExpandNode(raw) ==
    /\ Expand(resolveNode(raw))
    /\ Returned(expandEvents(Tree, resolveNode(raw)), expandReturn(Tree, resolveNode(raw)))
    /\ emitted' = expandEmitted(Tree, resolveNode(raw))
    /\ lastCall' = Call("expand", raw, NoType)

\* model.collapseNode(raw)
CollapseNode(raw) ==
    /\ Collapse(resolveNode(raw))
    /\ Returned(<<>>, collapseReturn(Tree, resolveNode(raw)))
    /\ emitted' = collapseEmitted(Tree, resolveNode(raw), fired')
    /\ lastCall' = Call("collapse", raw, NoType)

\* expansionService.toggleNodeExpansion(n), n checked to be expandable
Toggle(n) == IF isExpanded(Tree, n) THEN Collapse(n) ELSE Expand(n)

\* model.toggleNodeExpansion(raw)
ToggleNodeExpansion(raw) ==
    /\ Toggle(resolveNode(raw))
    /\ Returned(expandEvents(Tree, resolveNode(raw)), Fulfilled)
    /\ emitted' = expandEmitted(Tree, resolveNode(raw))
                    \o collapseEmitted(Tree, resolveNode(raw), fired')
    /\ lastCall' = Call("toggle", raw, NoType)

\* an openNode that fires the event also when no node is resolved
fireOpenNodeAnyway(node) == <<onOpenNode(node)>>

\* TreeModel.openNode: onOpenNodeEmitter.fire(node), for a node that is defined
fireOpenNode(node) == IF node = None THEN <<>> ELSE <<onOpenNode(node)>>

\* model.openNode(raw): doOpenNode toggles the node when it is expandable, the
\* event is fired when the call of toggleNodeExpansion has returned
OpenNode(raw) ==
    /\ Toggle(resolveNode(raw))
    /\ Fired(expandEvents(Tree, resolveNode(raw)))
    /\ emitted' = expandCalled(Tree, resolveNode(raw))
                    \o collapseEmitted(Tree, resolveNode(raw), fired')
                    \o fireOpenNode(resolveNode(raw))
                    \o expandResolved(Tree, resolveNode(raw))
    /\ lastCall' = Call("open", raw, NoType)

\* the service is left as svc, while the stack stays within bound
Selected(svc, bound) ==
    /\ Len(svc.state) <= bound
    /\ SetService(svc)
    /\ UNCHANGED treeVars

\* model.addSelection(arg)
AddSelection(arg, bound) ==
    /\ Selected(addSelection(Tree, Service, arg), bound)
    /\ Fired(<<>>)
    /\ Relayed
    /\ lastCall' = Call("addSelection", arg.node, arg.type)

\* model.selectNextNode(); the call is recorded with the node it read from
\* this.selectedNode, as are those of selectPrevNode and selectParent
SelectNextNode ==
    /\ SetService(selectNextVisibleNode(Tree, Service,
                                        TreeNodeIterator(Tree, selectedNode(Tree, state))))
    /\ UNCHANGED treeVars
    /\ Fired(<<>>)
    /\ Relayed
    /\ lastCall' = Call("selectNext", selectedNode(Tree, state), NoType)

\* model.selectPrevNode()
SelectPrevNode ==
    /\ SetService(selectNextVisibleNode(Tree, Service,
                                        BackwardTreeNodeIterator(Tree, selectedNode(Tree, state))))
    /\ UNCHANGED treeVars
    /\ Fired(<<>>)
    /\ Relayed
    /\ lastCall' = Call("selectPrev", selectedNode(Tree, state), NoType)

\* model.selectParent()
SelectParent ==
    /\ SetService(selectParent(Tree, Service, selectedNode(Tree, state)))
    /\ UNCHANGED treeVars
    /\ Fired(<<>>)
    /\ Relayed
    /\ lastCall' = Call("selectParent", selectedNode(Tree, state), NoType)

-----------------------------------------------------------------------------
(* Spec: a tree rooted at the subtree of 1.2, whose node 1.2.1 is collapsed
   and expanded while nodes are selected *)

\* the roots the caller assigns
Roots == {"1.2"}
\* the nodes the caller selects: the root, a node inside 1.2.1, the last node,
\* and 1.3, which is outside the tree
Targets == {"1.2", "1.2.1.1", "1.2.3", "1.3"}
\* the nodes the caller refreshes, expands and collapses
ExpansionTargets == {"1.2.1"}
ArgTypes == {DEFAULT, TOGGLE, RANGE, NoType}

Next ==
    \/ \E r \in Roots : SetRoot(r)
    \/ \E raw \in ExpansionTargets : Refresh(raw)
    \/ \E raw \in ExpansionTargets : ExpandNode(raw)
    \/ \E raw \in ExpansionTargets : CollapseNode(raw)
    \/ \E n \in Targets, t \in ArgTypes : AddSelection(Sel(n, t), MaxStack)

Spec == Init /\ [][Next]_vars

-----------------------------------------------------------------------------
(* SpecFixture: the set-up of tree-selection-state.spec, model.root =
   MOCK_ROOT(), followed by toggle and range selections *)

InitFixture ==
    /\ root = "1"
    /\ nodes = Nodes
    /\ children = MOCK_ROOT
    /\ expanded = [n \in ExpandableNodes |-> TRUE]
    /\ selected = {}
    /\ state = <<>>
    /\ lastCall = Call("root", "1", NoType)
    /\ fired = 0
    /\ events = refreshEvents("1")
    /\ promises = <<>>
    /\ awaited = None
    /\ navigation = TreeNavigationService
    /\ hidden = {}
    /\ emitted = <<>>

FixtureTargets == {"1.1", "1.1.2", "1.2.1.1", "1.2", "1.3"}

NextFixture ==
    \E n \in FixtureTargets, t \in {TOGGLE, RANGE} : AddSelection(Sel(n, t), MaxFixtureStack)

SpecFixture == InitFixture /\ [][NextFixture]_vars

-----------------------------------------------------------------------------
(* SpecFacade: the fixture with some of its nodes built invisible; the
   caller expands, collapses, toggles and opens nodes, with and without
   naming them, and moves the selection *)

\* the sets of nodes built with 'visible: false'
FacadeHidden == {{}, {"1.2.1"}, {"1.2", "1.3"}}
\* the nodes the caller names: none, an expandable node, a leaf
FacadeTargets == {None, "1.2.1", "1.3"}
\* the nodes the caller selects
FacadeSelections == {"1.2.1", "1.2.1.2"}

InitFacade ==
    /\ root = "1"
    /\ nodes = Nodes
    /\ children = MOCK_ROOT
    /\ expanded = [n \in ExpandableNodes |-> TRUE]
    /\ selected = {}
    /\ state = <<>>
    /\ lastCall = Call("root", "1", NoType)
    /\ fired = 0
    /\ events = refreshEvents("1")
    /\ promises = <<>>
    /\ awaited = None
    /\ navigation = TreeNavigationService
    /\ hidden \in FacadeHidden
    /\ emitted = relay(refreshEvents("1"))

NextFacade ==
    \/ \E raw \in FacadeTargets : ExpandNode(raw)
    \/ \E raw \in FacadeTargets : CollapseNode(raw)
    \/ \E raw \in FacadeTargets : ToggleNodeExpansion(raw)
    \/ \E raw \in FacadeTargets : OpenNode(raw)
    \/ \E n \in FacadeSelections, t \in {DEFAULT, TOGGLE} : AddSelection(Sel(n, t), MaxStack)
    \/ SelectNextNode
    \/ SelectPrevNode
    \/ SelectParent

SpecFacade == InitFacade /\ [][NextFacade]_vars

-----------------------------------------------------------------------------
(* SpecNavigate: the caller navigates to nodes of the fixture, and to node
   1.3 of it when the tree does not hold it, and selects nodes in between *)

\* 'if (node) { await this.doNavigate(node); }'
DoNavigate(node) ==
    /\ SetTree(IF node = None THEN Tree ELSE navigatedTree(Tree, node))
    /\ SetService(IF node = None THEN Service
                  ELSE navigatedService(navigatedTree(Tree, node), Service, node))
    /\ events' = IF node = None THEN <<>> ELSE navigateEvents(Tree, node)
    /\ awaited' = Fulfilled
    /\ UNCHANGED promises
    /\ emitted' = IF node = None THEN <<>>
                  ELSE relay(refreshEvents(node)) \o expandEmitted(setRoot(Tree, node), node)
                          \o selectionEmitted(fired')

\* model.navigateTo(node)
NavigateTo(node) ==
    /\ Len(navigatedHistory(navigation, node).nodes) <= MaxHistory
    /\ navigation' = navigatedHistory(navigation, node)
    /\ DoNavigate(node)
    /\ lastCall' = Call("navigateTo", node, NoType)

\* model.navigateForward()
NavigateForward ==
    /\ navigation' = advance(navigation)
    /\ DoNavigate(next(navigation))
    /\ lastCall' = Call("navigateForward", None, NoType)

\* model.navigateBackward()
NavigateBackward ==
    /\ navigation' = retreat(navigation)
    /\ DoNavigate(prev(navigation))
    /\ lastCall' = Call("navigateBackward", None, NoType)

\* the nodes the caller navigates to
NavigationTargets == {None, "1", "1.2", "1.3"}
\* the nodes the caller selects
NavigationSelections == {"1.2", "1.2.1.1", "1.3"}

NextNavigate ==
    \/ \E node \in NavigationTargets : NavigateTo(node)
    \/ \E n \in NavigationSelections, t \in {TOGGLE, RANGE} :
           AddSelection(Sel(n, t), MaxStack)

SpecNavigate == Init /\ [][NextNavigate]_vars

-----------------------------------------------------------------------------
(* SpecHistory: the caller navigates to nodes, back and forth in the
   history, and toggles nodes in between *)

\* the nodes the caller navigates to: none, the fixture, a subtree of it, and
\* a node that is neither expandable nor selectable
HistoryTargets == {None, "1", "1.2", PlainNode}
\* the nodes the caller toggles
HistorySelections == {"1.2", "1.2.1"}

NextHistory ==
    \/ \E node \in HistoryTargets : NavigateTo(node)
    \/ NavigateForward
    \/ NavigateBackward
    \/ \E n \in HistorySelections : AddSelection(Sel(n, TOGGLE), MaxStack)

SpecHistory == Init /\ [][NextHistory]_vars

-----------------------------------------------------------------------------
(* SpecState: the state machine alone, as tree-selection-state.spec drives
   it: each state is the nextState of the one before, whether or not the
   selected nodes change *)

\* state = state.nextState(selection); a call that throws leaves the state
NextStateCall(selection, bound) ==
    /\ Len(nextState(Tree, state, selection)) <= bound
    /\ state' = IF nextState(Tree, state, selection) = ThrownState THEN state
                 ELSE nextState(Tree, state, selection)
    /\ Fired(<<>>)
    /\ UNCHANGED <<treeVars, selected, fired, emitted>>
    /\ lastCall' = Call("nextState", selection.node, selection.type)

StateTypes == {DEFAULT, TOGGLE, RANGE}

NextState ==
    \E n \in FixtureTargets, t \in StateTypes : NextStateCall(Sel(n, t), MaxFixtureStack)

SpecState == InitFixture /\ [][NextState]_vars

-----------------------------------------------------------------------------
(* SpecStacks: states constructed with any stack, as the constructor of
   TreeSelectionState allows: new TreeSelectionState(tree, selectionStack),
   the entries of any type or none; nextState is called on them with the
   types of the enumeration and with one that is not of it *)

\* longest stack a state is constructed with
MaxConstructed == 2

ConstructedTargets == {"1.1", "1.2.1.1", "1.3"}
ConstructedTypes == {DEFAULT, TOGGLE, RANGE, NoType}

\* the stacks of at most k entries
RECURSIVE ConstructedStacks(_)
ConstructedStacks(k) ==
    IF k = 0 THEN {<<>>}
    ELSE ConstructedStacks(k - 1)
            \cup {Append(stack, Sel(n, t)) : stack \in ConstructedStacks(k - 1),
                                             n \in ConstructedTargets, t \in ConstructedTypes}

InitStacks ==
    /\ root = "1"
    /\ nodes = Nodes
    /\ children = MOCK_ROOT
    /\ expanded = [n \in ExpandableNodes |-> TRUE]
    /\ selected = {}
    /\ state \in ConstructedStacks(MaxConstructed)
    /\ lastCall = Call("new", None, NoType)
    /\ fired = 0
    /\ events = <<>>
    /\ promises = <<>>
    /\ awaited = None
    /\ navigation = TreeNavigationService
    /\ hidden = {}
    /\ emitted = <<>>

NextStacks ==
    \E n \in ConstructedTargets, t \in StateTypes \cup {UnexpectedType} :
        NextStateCall(Sel(n, t), MaxStack)

SpecStacks == InitStacks /\ [][NextStacks]_vars

-----------------------------------------------------------------------------
(* SpecRefresh: the tree of a subclass that overrides resolveChildren, as
   CallHierarchyTree does: the promise of a refresh settles any time after
   the call, with the children the resolver answers or by rejecting *)

\* what the resolver may answer for p: the children p was built with, those
\* but the last, or a rejection
Resolutions(p) ==
    IF CompositeTreeNode_is(p)
    THEN {Fulfils(MOCK_ROOT[p]), Fulfils(Front(MOCK_ROOT[p])), Rejects}
    ELSE {Rejects}

\* the promises are left as made, while there are at most MaxPromises
Promised(made) ==
    /\ Len(made) <= MaxPromises
    /\ promises' = made

\* model.root = r, up to the return of the setter
AssignRoot(r, result) ==
    /\ SetTree(rootAssigned(Tree, r))
    /\ Promised(resolving(rootAssigned(Tree, r), promises, None, result))
    /\ events' = fireChanged
    /\ awaited' = None
    /\ UNCHANGED <<selected, state, fired, navigation>>
    /\ Relayed
    /\ lastCall' = Call("root", r, NoType)

\* model.refresh(raw), up to its return
RefreshCall(raw, result) ==
    /\ Promised(resolving(Tree, promises, raw, result))
    /\ events' = fireChanged
    /\ awaited' = awaitRefresh(refreshReturn(result.outcome))
    /\ UNCHANGED <<treeVars, selected, state, fired, navigation>>
    /\ Relayed
    /\ lastCall' = Call("refresh", raw, NoType)

\* the i-th promise settles: to its children, and the callback of
\* TreeImpl.refresh runs, or by rejecting
Settle(i) ==
    /\ ~promises[i].settled
    /\ SetTree(settle(Tree, promises[i]))
    /\ events' = settleEvents(promises[i])
    /\ promises' = [promises EXCEPT ![i].settled = TRUE]
    /\ awaited' = None
    /\ UNCHANGED <<selected, state, fired, navigation>>
    /\ Relayed
    /\ lastCall' = Call(IF promises[i].result.outcome = Rejected THEN "reject" ELSE "resolve",
                        promises[i].parent, NoType)

\* the roots the caller assigns: none, the fixture, a subtree of it, a plain node
RefreshRoots == {None, "1", "1.2", PlainNode}
\* the nodes the caller refreshes: the root, a subtree, a node built without children
RefreshTargets == {None, "1.2", PlainNode}

NextRefresh ==
    \/ \E r \in RefreshRoots : \E result \in Resolutions(r) : AssignRoot(r, result)
    \/ \E raw \in RefreshTargets :
           \E result \in Resolutions(refreshParent(Tree, raw)) : RefreshCall(raw, result)
    \/ \E i \in DOMAIN promises : Settle(i)

SpecRefresh == Init /\ [][NextRefresh]_vars

-----------------------------------------------------------------------------
(* SpecReroot: selections made between root assignments and refreshes whose
   resolver answers other children than the node had *)

\* the roots the caller assigns: the fixture and a subtree of it
RerootRoots == {"1", "1.2"}
\* the nodes the caller selects: one outside the subtree, the last child in it
RerootTargets == {"1.3", "1.2.3"}

NextReroot ==
    \/ \E r \in RerootRoots : SetRoot(r)
    \/ \E n \in RerootTargets, t \in {TOGGLE, RANGE} : AddSelection(Sel(n, t), MaxStack)
    \/ \E result \in Resolutions(refreshParent(Tree, "1.2")) : RefreshCall("1.2", result)
    \/ \E i \in DOMAIN promises : Settle(i)

SpecReroot == Init /\ [][NextReroot]_vars

-----------------------------------------------------------------------------
(* The selection properties *)

\* the selected nodes of the state with this stack, as a set
selectedSet(tree, stack) == Range(selectedNodes(tree, stack))

\* n is in the tree and none of its ancestors is collapsed
Shown(tree, n) ==
    tree.root # None /\ n \in Range(DepthFirstTreeIterator(tree, tree.root))

\* the nodes from a through b, whichever comes first, in the order
Between(order, a, b) ==
    {order[k] : k \in Min({IndexOf(order, a), IndexOf(order, b)})
                      ..Max({IndexOf(order, a), IndexOf(order, b)})}

\* the stack after TOGGLE(X) is applied twice to the held state
toggledTwice(X) == handleToggle(Tree, handleToggle(Tree, state, X), X)

\* C1: every node of the tree is flagged selected exactly when it is one of
\* the selection service's selectedNodes()
C1_FlagsMatchSelectedNodes ==
    \A n \in nodes : (n \in selected) <=> (n \in selectedSet(Tree, state))

\* C2: unless X is the only selected node, TOGGLE of a valid visible node X
\* changes the selected set by exactly X
C2_ToggleChangesOnlyX ==
    \A X \in nodes :
        (Shown(Tree, X) /\ selectedSet(Tree, state) # {X})
        => selectedSet(Tree, nextState(Tree, state, Sel(X, TOGGLE)))
            = IF X \in selectedSet(Tree, state)
              THEN selectedSet(Tree, state) \ {X}
              ELSE selectedSet(Tree, state) \cup {X}

\* C3: when X is the only selected node, TOGGLE of X, once or twice, leaves
\* the selected set exactly {X}
C3_SoleToggleIsNoOp ==
    \A X \in nodes :
        selectedNodes(Tree, state) = <<X>>
        => /\ selectedSet(Tree, nextState(Tree, state, Sel(X, TOGGLE))) = {X}
           /\ selectedSet(Tree, toggledTwice(X)) = {X}

\* C4 as stated: TOGGLE of X applied twice in a row leaves X neither in the
\* stack nor selected, also when X is the first selection made
C4_ToggleTwiceRemoves ==
    \A X \in nodes :
        /\ \A i \in DOMAIN toggledTwice(X) : toggledTwice(X)[i].node # X
        /\ X \notin selectedSet(Tree, toggledTwice(X))

\* C4: TOGGLE of an unselected X applied twice in a row to a non-empty stack
\* gives the stack back, X not selected; applied twice to the empty stack it
\* leaves X the one selected node
C4_ToggleTwiceRestores ==
    \A X \in nodes :
        /\ (state # <<>> /\ X \notin selectedSet(Tree, state))
            => /\ toggledTwice(X) = state
               /\ X \notin selectedSet(Tree, toggledTwice(X))
        /\ state = <<>>
            => /\ toggledTwice(X) = <<Sel(X, TOGGLE)>>
               /\ selectedNodes(Tree, toggledTwice(X)) = <<X>>

\* the service has added an unselected X by TOGGLE to a stack that held other
\* entries, and a second TOGGLE of X gives that stack back
C4_Witness ==
    /\ Len(state) >= 2
    /\ lastCall = Call("addSelection", state[Len(state)].node, TOGGLE)
    /\ fired = 1
    /\ state[Len(state)].type = TOGGLE
    /\ lastCall.node \in selected
    /\ nextState(Tree, state, Sel(lastCall.node, TOGGLE)) = Front(state)
    /\ lastCall.node \notin selectedSet(Tree, Front(state))

\* C5: a DEFAULT selection of N, or one without a type, yields the stack
\* [TOGGLE(N)], whose selectedNodes() is [N]
C5_DefaultResets ==
    \A N \in Nodes, t \in {DEFAULT, NoType} :
        /\ nextState(Tree, state, Sel(N, t)) = <<Sel(N, TOGGLE)>>
        /\ selectedNodes(Tree, nextState(Tree, state, Sel(N, t))) = <<N>>

\* the service holds toggles and a range that select several nodes, and a
\* DEFAULT selection of one more node leaves it with the one toggle
C5_Witness ==
    /\ Len(state) >= 3
    /\ \E i \in DOMAIN state : state[i].type = RANGE
    /\ Cardinality(selected) >= 3
    /\ \E N \in nodes \ selected :
        addSelection(Tree, Service, Sel(N, DEFAULT))
            = [state |-> <<Sel(N, TOGGLE)>>, selected |-> {N}, fired |-> 1]

\* C6: RANGE(B) on a stack whose top is TOGGLE(A), A and B valid and visible,
\* adds to the selected set every visible node from A through B in depth-first
\* pre-order, and deselects nothing
C6_RangeAddsBetween ==
    \A B \in nodes :
        (/\ state # <<>>
         /\ state[Len(state)].type = TOGGLE
         /\ Shown(Tree, state[Len(state)].node)
         /\ Shown(Tree, B))
        => selectedSet(Tree, nextState(Tree, state, Sel(B, RANGE)))
            = selectedSet(Tree, state)
                \cup Between(DepthFirstTreeIterator(Tree, root), state[Len(state)].node, B)

\* the service held a toggle of another node below a visible top toggle A, and
\* a RANGE to a visible B has selected the nodes from A through B, more than
\* the two ends
C6_Witness ==
    /\ Len(state) >= 3
    /\ lastCall = Call("addSelection", state[Len(state)].node, RANGE)
    /\ fired = 1
    /\ state[Len(state)].type = RANGE
    /\ state[Len(state) - 1].type = TOGGLE
    /\ Shown(Tree, state[Len(state)].node)
    /\ Shown(Tree, state[Len(state) - 1].node)
    /\ Cardinality(Between(DepthFirstTreeIterator(Tree, root),
                           state[Len(state) - 1].node, state[Len(state)].node)) >= 3
    /\ Between(DepthFirstTreeIterator(Tree, root),
               state[Len(state) - 1].node, state[Len(state)].node) \subseteq selected
    /\ selected = selectedSet(Tree, state)

\* the stacks of test '01 - selection state', from the empty state
test01(k) ==
    CASE k = 0 -> <<>>
      [] k = 1 -> nextState(Tree, <<>>, Sel("1.1", TOGGLE))
      [] k = 2 -> nextState(Tree, nextState(Tree, <<>>, Sel("1.1", TOGGLE)), Sel("1.1.2", TOGGLE))
      [] k = 3 -> nextState(Tree, <<Sel("1.1", TOGGLE), Sel("1.1.2", TOGGLE)>>,
                            Sel("1.2.1.1", TOGGLE))
      [] k = 4 -> nextState(Tree, <<Sel("1.1", TOGGLE), Sel("1.1.2", TOGGLE),
                                    Sel("1.2.1.1", TOGGLE)>>, Sel("1.2", TOGGLE))
      [] k = 5 -> nextState(Tree, <<Sel("1.1", TOGGLE), Sel("1.1.2", TOGGLE),
                                    Sel("1.2.1.1", TOGGLE), Sel("1.2", TOGGLE)>>,
                            Sel("1.3", RANGE))

\* C7: on the fully expanded fixture, toggle(1.1); toggle(1.1.2);
\* toggle(1.2.1.1); toggle(1.2); range(1.3) from the empty state select, step
\* by step, the toggled nodes most recent first, and at last the nine nodes
\* from 1.3 back to 1.1
C7_Test01 ==
    /\ test01(2) = <<Sel("1.1", TOGGLE), Sel("1.1.2", TOGGLE)>>
    /\ test01(3) = <<Sel("1.1", TOGGLE), Sel("1.1.2", TOGGLE), Sel("1.2.1.1", TOGGLE)>>
    /\ test01(4) = <<Sel("1.1", TOGGLE), Sel("1.1.2", TOGGLE), Sel("1.2.1.1", TOGGLE),
                     Sel("1.2", TOGGLE)>>
    /\ selectedNodes(Tree, test01(1)) = <<"1.1">>
    /\ selectedNodes(Tree, test01(2)) = <<"1.1.2", "1.1">>
    /\ selectedNodes(Tree, test01(3)) = <<"1.2.1.1", "1.1.2", "1.1">>
    /\ selectedNodes(Tree, test01(4)) = <<"1.2", "1.2.1.1", "1.1.2", "1.1">>
    /\ selectedNodes(Tree, test01(5))
        = <<"1.3", "1.2.3", "1.2.2", "1.2.1.2", "1.2.1.1", "1.2.1", "1.2", "1.1.2", "1.1">>

\* the service holds the last stack of the test after range(1.3), with the
\* nine nodes flagged
C7_Witness ==
    /\ lastCall = Call("addSelection", "1.3", RANGE)
    /\ fired = 1
    /\ state = test01(5)
    /\ state = <<Sel("1.1", TOGGLE), Sel("1.1.2", TOGGLE), Sel("1.2", TOGGLE), Sel("1.3", RANGE)>>
    /\ selected = Nodes \ {"1", "1.1.1"}
    /\ selectedNodes(Tree, state)
        = <<"1.3", "1.2.3", "1.2.2", "1.2.1.2", "1.2.1.1", "1.2.1", "1.2", "1.1.2", "1.1">>

\* the depth-first pre-order of the whole tree, collapsed subtrees included
preOrder(tree) ==
    DepthFirstTreeIterator([tree EXCEPT !.expanded = [n \in ExpandableNodes |-> TRUE]],
                           tree.root)

\* the nodes selected through the top entry of the stack only
onlyThroughTop(tree, stack) == selectedSet(tree, stack) \ selectedSet(tree, Front(stack))

\* C8: RANGE(C) on a stack whose top is a RANGE changes only the top entry, to
\* RANGE(C); the nodes selected only through the replaced range that are not
\* between the anchor and C are no longer selected
C8_RangeReplacesTop ==
    \A C \in nodes :
        (Len(state) >= 2 /\ state[Len(state)].type = RANGE)
        => /\ nextState(Tree, state, Sel(C, RANGE)) = Append(Front(state), Sel(C, RANGE))
           /\ \A n \in onlyThroughTop(Tree, state) :
                n \notin Between(preOrder(Tree), state[Len(state) - 1].node, C)
                => n \notin selectedSet(Tree, nextState(Tree, state, Sel(C, RANGE)))

\* C9: addSelection with a node that is not in the index fires no event and
\* leaves the held state and every selected flag as they were
C9_InvalidNodeIsNoOp ==
    /\ \A n \in Nodes \ nodes, t \in ArgTypes :
        addSelection(Tree, Service, Sel(n, t)) = [state |-> state, selected |-> selected,
                                                  fired |-> 0]
    /\ (lastCall.op = "addSelection" /\ lastCall.node \notin nodes) => fired = 0

\* the service holds a selection, and the last call, a RANGE with a node that
\* is not in the index, fired nothing
C9_Witness ==
    /\ lastCall.op = "addSelection"
    /\ lastCall.type = RANGE
    /\ lastCall.node \notin nodes
    /\ nodes # {}
    /\ Len(state) >= 2
    /\ selected # {}
    /\ fired = 0
    /\ addSelection(Tree, Service, Sel(lastCall.node, RANGE)).state = state

\* what C10 says of the call addSelection(arg) that leaves the service as
\* res, old being the selected set before the call and new the selected set
\* of the computed next state
firedOnChange(arg, res, old, new) ==
    /\ res.fired \in {0, 1}
    /\ IF res.state = state THEN res.fired = 0
       ELSE res.fired = 1 <=> selectedSet(Tree, res.state) # old
    /\ arg.node \in nodes => (res.fired = 1 <=> new # old)
    /\ res.fired = 0 => res.state = state

\* what C10 says of every call, old being the selected set before the call
firedOnChanges(old) ==
    \A n \in Targets, t \in ArgTypes :
        firedOnChange(Sel(n, t), addSelection(Tree, Service, Sel(n, t)), old,
                      selectedSet(Tree, nextState(Tree, state, Sel(n, t))))

\* C10: an addSelection call fires at most one event, fires exactly when the
\* selected set after the call differs from the set before it, which is when
\* the set of the computed next state differs, and does not replace the held
\* state when it fires nothing
C10_FiresOnceOnChange ==
    /\ fired \in {0, 1}
    /\ firedOnChanges(selectedSet(Tree, state))

\* the last call, a RANGE with a valid node, computed a next state other than
\* the held one with the same selected set: it fired nothing and the held
\* state was kept
C10_Witness ==
    /\ lastCall.op = "addSelection"
    /\ lastCall.type = RANGE
    /\ lastCall.node \in nodes
    /\ fired = 0
    /\ Len(state) >= 2
    /\ nextState(Tree, state, Sel(lastCall.node, RANGE)) # state
    /\ selectedSet(Tree, nextState(Tree, state, Sel(lastCall.node, RANGE)))
        = selectedSet(Tree, state)
    /\ addSelection(Tree, Service, Sel(lastCall.node, RANGE)).state = state

-----------------------------------------------------------------------------
(* The properties of the registry and its refresh *)

\* the nodes reached from the root of the tree through the children
reachable(tree) ==
    IF tree.root = None THEN {} ELSE subtreeIds(tree.children, tree.root)

\* the promises made for the children of p, in the order of the calls
promisesOf(p) == SelectSeq(promises, LAMBDA promise : promise.parent = p)

\* every promise has settled
allSettled == \A i \in DOMAIN promises : promises[i].settled

\* C13: right after the root is assigned, the index holds exactly the nodes
\* reachable from the new root through the children, so none that only the
\* tree before held, and an onChanged event has fired
C13_RootAssignedIndex ==
    lastCall.op = "root" =>
        /\ nodes = reachable(Tree)
        /\ onChanged \in Range(events)

\* the root was assigned to the subtree 1.2 after the tree of root 1 had been
\* refreshed
C13_Witness ==
    /\ lastCall.op = "root"
    /\ root = "1.2"
    /\ \E i \in DOMAIN promises :
           /\ promises[i].parent = "1"
           /\ promises[i].settled
           /\ promises[i].result.outcome = Fulfilled

\* C14: whenever no resolution is pending, the index holds exactly the nodes
\* reachable from the current root
C14_IndexIsReachable == allSettled => nodes = reachable(Tree)

\* C15: each onNodeRefreshed is followed at once by an onChanged, and a
\* refresh of a valid composite node delivers no onChanged before its
\* onNodeRefreshed: none has been delivered when the call returns
C15_RefreshedBeforeChanged ==
    /\ \A i \in DOMAIN events :
           events[i].name = "onNodeRefreshed" =>
               i + 1 \in DOMAIN events /\ events[i + 1] = onChanged
    /\ (lastCall.op = "refresh" /\ CompositeTreeNode_is(refreshParent(Tree, lastCall.node)))
           => onChanged \notin Range(events)

C17_FailureLeavesTree ==
    [][/\ lastCall'.op = "refresh" => UNCHANGED <<root, nodes, children>>
       /\ lastCall'.op = "reject" =>
              /\ UNCHANGED <<root, nodes, children>>
              /\ \A i \in DOMAIN events' : events'[i].name # "onNodeRefreshed"
              /\ Len(promises') = Len(promises)]_vars

\* the resolution of the children of 1.2, which the tree holds, failed
C17_Witness ==
    /\ lastCall.op = "reject"
    /\ lastCall.node = "1.2"
    /\ "1.2" \in nodes

\* C18: when the resolution of a refresh fails, the promise that
\* TreeModel.refresh returned to its caller rejects
C18_FailurePropagates ==
    (/\ lastCall.op = "refresh"
     /\ CompositeTreeNode_is(refreshParent(Tree, lastCall.node))
     /\ promises # <<>>
     /\ promises[Len(promises)].result.outcome = Rejected)
        => awaited = Rejected

\* C19: when the refreshes of a node p have all settled, the children of p
\* are those of the refresh called last, whatever the order of settling
C19_LaterRefreshWins ==
    \A p \in Nodes :
        (/\ allSettled
         /\ Len(promisesOf(p)) >= 2
         /\ \A i \in DOMAIN promisesOf(p) : promisesOf(p)[i].result.outcome = Fulfilled)
            => children[p] = promisesOf(p)[Len(promisesOf(p))].result.children

-----------------------------------------------------------------------------
(* The properties of the state machine alone *)

\* C20: a stack reached through nextState calls with DEFAULT, TOGGLE and
\* RANGE selections holds only TOGGLE and RANGE entries, and neither
\* selectedNodes() nor a TOGGLE or RANGE nextState throws on it
C20_NoDefaultInStack ==
    /\ \A i \in DOMAIN state : state[i].type \in {TOGGLE, RANGE}
    /\ selectedNodes(Tree, state) # ThrownNodes
    /\ \A n \in FixtureTargets, t \in {TOGGLE, RANGE} :
           nextState(Tree, state, Sel(n, t)) # ThrownState

\* the last call was a DEFAULT selection of node 1.2: the stack holds the one
\* entry TOGGLE 1.2
C20_Witness ==
    /\ lastCall.op = "nextState"
    /\ lastCall.type = DEFAULT
    /\ lastCall.node = "1.2"
    /\ state = <<Sel("1.2", TOGGLE)>>

-----------------------------------------------------------------------------
(* The properties of the facade *)

\* the selection service after node N, left collapsed in tree t, was reported
\* to the listener of the facade
collapsedUnder(t, N) == onExpansionChanged(t, Service, N)

\* C11: a node that the index of a tree with a root does not hold is ignored
\* by addSelection and by navigateTo: the root, the selection and the
\* navigation history stay as they are
C11_StaleNodeIgnored ==
    \A n \in NavigationTargets \ {None} :
        (root # None /\ validateNode(Tree, n) = None) =>
            /\ \A t \in ArgTypes : addSelection(Tree, Service, Sel(n, t)) = Service
            /\ navigatedTree(Tree, n).root = root
            /\ navigatedService(navigatedTree(Tree, n), Service, n).state = state
            /\ navigatedService(navigatedTree(Tree, n), Service, n).selected = selected
            /\ navigatedHistory(navigation, n) = navigation

\* C12: when a node N that is a proper ancestor of the selected node
\* collapses, then after the listener has run the selection is N alone, N
\* being visible and selectable
C12_CollapseSelectsAncestor ==
    \A N \in ExpansionTargets :
        (/\ collapseNode(Tree, N) # Tree
         /\ isAncestor(N, selectedNode(Tree, state))
         /\ SelectableTreeNode_isVisible(N))
            => selectedNodes(collapseNode(Tree, N),
                             collapsedUnder(collapseNode(Tree, N), N).state) = <<N>>

-----------------------------------------------------------------------------
(* The errors of the state machine *)

\* the stack holds an entry of type DEFAULT or of no type
holdsDefault(stack) == \E i \in DOMAIN stack : stack[i].type \in {DEFAULT, NoType}

\* C21: nextState with a type that is none of DEFAULT, TOGGLE, RANGE throws,
\* and on a stack that holds an entry of type DEFAULT or of no type,
\* selectedNodes() and nextState with TOGGLE or RANGE throw
C21_UnexpectedTypeThrows ==
    /\ \A n \in ConstructedTargets :
           nextState(Tree, state, Sel(n, UnexpectedType)) = ThrownState
    /\ holdsDefault(state) =>
           /\ selectedNodes(Tree, state) = ThrownNodes
           /\ \A n \in ConstructedTargets, t \in {TOGGLE, RANGE} :
                  nextState(Tree, state, Sel(n, t)) = ThrownState

\* nextState was called with TOGGLE on a stack that holds a TOGGLE entry and,
\* above it, an entry of no type: it threw, and the state was left as it was
C21_Witness ==
    /\ lastCall.op = "nextState"
    /\ lastCall.type = TOGGLE
    /\ Len(state) = 2
    /\ state[1].type = TOGGLE
    /\ state[2].type = NoType
    /\ nextState(Tree, state, Sel(lastCall.node, TOGGLE)) = ThrownState

-----------------------------------------------------------------------------
(* The operations of the facade that take the selected node by default *)

\* the operations that take an optional node
NodeOptional == {"expand", "collapse", "toggle", "open"}

\* the tree the expansion service leaves when the operation op acts on node n
expansionOf(op, n) ==
    CASE ~ExpandableTreeNode_is(n) -> Tree
      [] op = "expand" -> expandNode(Tree, n)
      [] op = "collapse" -> collapseNode(Tree, n)
      [] OTHER -> IF isExpanded(Tree, n) THEN collapseNode(Tree, n) ELSE expandNode(Tree, n)

\* the selection the listener of the facade leaves after that
selectionOf(op, n) ==
    IF expansionOf(op, n) # Tree THEN onExpansionChanged(expansionOf(op, n), Service, n)
    ELSE Service

\* the onOpenNode events among ev
openEvents(ev) == SelectSeq(ev, LAMBDA e : e.name = "onOpenNode")

\* C22: expandNode, collapseNode, toggleNodeExpansion and openNode called
\* without a node leave the expanded flags and the selection as the
\* operation on the selected node leaves them; expandNode and collapseNode
\* return false and change no expanded flag when the node they resolve, given
\* or selected, is none or not expandable
C22_DefaultsToSelected ==
    [][lastCall'.op \in NodeOptional =>
          /\ lastCall'.node = None =>
                 /\ expanded' = expansionOf(lastCall'.op, selectedNode(Tree, state)).expanded
                 /\ state' = selectionOf(lastCall'.op, selectedNode(Tree, state)).state
                 /\ selected' = selectionOf(lastCall'.op, selectedNode(Tree, state)).selected
                 /\ lastCall'.op = "open" =>
                        openEvents(emitted') = fireOpenNode(selectedNode(Tree, state))
          /\ (/\ lastCall'.op \in {"expand", "collapse"}
              /\ ~ExpandableTreeNode_is(IF lastCall'.node # None THEN lastCall'.node
                                        ELSE selectedNode(Tree, state)))
                 => (awaited' = False /\ UNCHANGED expanded)]_vars

\* collapseNode was called without a node while 1.2.1 was the selected node
\* and expanded: it collapsed 1.2.1 and returned true
C22_Witness ==
    /\ lastCall = Call("collapse", None, NoType)
    /\ selectedNodes(Tree, state) = <<"1.2.1">>
    /\ ~expanded["1.2.1"]
    /\ awaited = True
    /\ expansionChanged("1.2.1") \in Range(emitted)

\* the expanded flags with that of node n inverted when n is expandable
toggledFlags(n) ==
    IF ExpandableTreeNode_is(n) THEN [expanded EXCEPT ![n] = ~expanded[n]] ELSE expanded

\* what C23 says of an openNode call that resolved the node n
opened(n) ==
    IF n = None THEN emitted' = <<>> /\ UNCHANGED <<treeVars, state, selected>>
    ELSE openEvents(emitted') = <<onOpenNode(n)>> /\ expanded' = toggledFlags(n)

\* C23: openNode on the node it resolves, given or selected, fires exactly
\* one onOpenNode event with that node and inverts the expanded flag of the
\* node when it is expandable, changing no other flag, and none when it is a
\* leaf; with no node given and none selected it fires nothing and changes
\* nothing
C23_OpenFiresOnce ==
    [][lastCall'.op = "open" =>
          opened(IF lastCall'.node # None THEN lastCall'.node
                 ELSE selectedNode(Tree, state))]_vars

\* openNode was called without a node while the collapsed node 1.2.1 was
\* selected: it fired one onOpenNode(1.2.1), after the expansion service had
\* reported the change, and 1.2.1 is expanded
C23_Witness ==
    /\ lastCall = Call("open", None, NoType)
    /\ selectedNodes(Tree, state) = <<"1.2.1">>
    /\ expanded["1.2.1"]
    /\ openEvents(emitted) = <<onOpenNode("1.2.1")>>
    /\ emitted[1] = expansionChanged("1.2.1")

-----------------------------------------------------------------------------
(* The properties of the navigation *)

\* what C24 says of navigateTo(node) for a defined node
navigated(node) ==
    /\ navigation'.index = Len(navigation'.nodes)
    /\ navigation'.nodes = Append(SubSeq(navigation.nodes, 1, navigation.index), node)
    /\ root' = node
    /\ ExpandableTreeNode_is(node) => expanded'[node]
    /\ IF SelectableTreeNode_is(node) THEN selectedNodes(Tree, state)' = <<node>>
       ELSE UNCHANGED <<state, selected>>

\* C24: navigateTo(node) with a defined node leaves the node last in the
\* history and current, the root of the tree, expanded when it is
\* expandable, and, when it is selectable, the one selected node;
\* navigateTo(undefined) changes nothing
C24_NavigateTo ==
    [][lastCall'.op = "navigateTo" =>
          IF lastCall'.node = None
          THEN UNCHANGED <<treeVars, state, selected, navigation>>
          ELSE navigated(lastCall'.node)]_vars

\* navigateTo(1.2) was called when the history held a node: the selection
\* changed, 1.2 is current in the history, the root, expanded, and the one
\* selected node
C24_Witness ==
    /\ lastCall = Call("navigateTo", "1.2", NoType)
    /\ fired = 1
    /\ navigation.index >= 2
    /\ navigation.nodes[navigation.index] = "1.2"
    /\ root = "1.2"
    /\ expanded["1.2"]
    /\ state = <<Sel("1.2", TOGGLE)>>
    /\ selected = {"1.2"}

\* C27: navigateTo(node) with a defined node leaves no forward history, also
\* when the history held nodes to go forward to, and leaves a node to go
\* back to whenever the history held a node before
C27_PushDiscardsForward ==
    /\ (lastCall.op = "navigateTo" /\ lastCall.node # None) =>
           /\ ~canNavigateForward(navigation)
           /\ navigation.index >= 2 => canNavigateBackward(navigation)
    /\ \A node \in HistoryTargets \ {None} :
           /\ ~canNavigateForward(navigatedHistory(navigation, node))
           /\ navigation.nodes # <<>> =>
                  canNavigateBackward(navigatedHistory(navigation, node))

\* navigateBackward has left a node to go forward to, which navigateTo(1.2)
\* discards
C27_Witness ==
    /\ lastCall.op = "navigateBackward"
    /\ canNavigateForward(navigation)
    /\ navigation.index = 1
    /\ Len(navigation.nodes) >= 2
    /\ navigatedHistory(navigation, "1.2").nodes = <<navigation.nodes[1], "1.2">>

-----------------------------------------------------------------------------
(* The moves of the selection *)

\* the nodes of the tree in depth-first order, collapsed subtrees pruned
pruned == IF root = None THEN <<>> ELSE DepthFirstTreeIterator(Tree, root)

\* the nodes of order after node s, and those before it, nearest first
following(order, s) == SubSeq(order, IndexOf(order, s) + 1, Len(order))
preceding(order, s) == Reverse(SubSeq(order, 1, IndexOf(order, s) - 1))

\* what C25 says of a move from the selected node s along the nodes ahead
movedAlong(s, ahead) ==
    IF SelectSeq(ahead, SelectableTreeNode_isVisible) = <<>>
    THEN UNCHANGED <<state, selected>>
    ELSE selectedNodes(Tree, state)' = <<Head(SelectSeq(ahead, SelectableTreeNode_isVisible))>>

\* C25: from a selected node that the pruned depth-first order of the tree
\* holds, selectNextNode (selectPrevNode) leaves as the one selected node the
\* first visible selectable node after (before) it in that order, and leaves
\* the selection as it is when there is none, as it does when nothing is
\* selected
C25_SelectNextVisible ==
    [][/\ (lastCall'.op = "selectNext" /\ lastCall'.node \in Range(pruned))
              => movedAlong(lastCall'.node, following(pruned, lastCall'.node))
       /\ (lastCall'.op = "selectPrev" /\ lastCall'.node \in Range(pruned))
              => movedAlong(lastCall'.node, preceding(pruned, lastCall'.node))
       /\ (lastCall'.op \in {"selectNext", "selectPrev"} /\ lastCall'.node = None)
              => UNCHANGED <<state, selected>>]_vars

\* selectNextNode was called with 1.1.2 selected, 1.1 expanded and the next
\* node 1.2 invisible: it passed over 1.2 and selected 1.2.1
C25_Witness ==
    /\ lastCall = Call("selectNext", "1.1.2", NoType)
    /\ hidden = {"1.2", "1.3"}
    /\ fired = 1
    /\ state = <<Sel("1.2.1", TOGGLE)>>
    /\ selected = {"1.2.1"}

\* selectPrevNode was called with 1.2.2 selected while 1.2.1 was collapsed
\* and invisible: it passed over 1.2.1, whose children the order does not hold,
\* and selected 1.2
C25_WitnessPrev ==
    /\ lastCall = Call("selectPrev", "1.2.2", NoType)
    /\ hidden = {"1.2.1"}
    /\ ~expanded["1.2.1"]
    /\ fired = 1
    /\ state = <<Sel("1.2", TOGGLE)>>

\* the visible selectable ancestors of node s
visibleAncestors(s) == {a \in Nodes : isAncestor(a, s) /\ SelectableTreeNode_isVisible(a)}

\* what C26 says of selectParent from the selected node s, whose visible
\* selectable ancestors are above
movedUp(s, above) ==
    IF above = {} THEN UNCHANGED <<state, selected>>
    ELSE selectedNodes(Tree, state)'
            = <<CHOOSE a \in above : \A b \in above \ {a} : isAncestor(b, a)>>

\* C26: selectParent leaves as the one selected node the nearest ancestor of
\* the selected node that is selectable and visible, and leaves the selection
\* as it is when there is no such ancestor or nothing is selected
C26_SelectParent ==
    [][lastCall'.op = "selectParent" =>
          movedUp(lastCall'.node, visibleAncestors(lastCall'.node))]_vars

\* selectParent was called with 1.2.1.2 selected and its parent 1.2.1
\* invisible: it passed over 1.2.1 and selected 1.2
C26_Witness ==
    /\ lastCall = Call("selectParent", "1.2.1.2", NoType)
    /\ hidden = {"1.2.1"}
    /\ fired = 1
    /\ state = <<Sel("1.2", TOGGLE)>>
    /\ selected = {"1.2"}

-----------------------------------------------------------------------------
(* The events of the facade *)

\* the events the TreeModel listens to
Relayed_names == {"onChanged", "onSelectionChanged", "onExpansionChanged"}

\* how many of the events ev are the event e
countOf(ev, e) == Len(SelectSeq(ev, LAMBDA x : x = e))

\* C28: the events of a step hold every onChanged the tree fired and every
\* onSelectionChanged the selection service fired, and each of them, as each
\* onExpansionChanged, is followed at once by an onChanged of the TreeModel,
\* so that the one for an expansion change comes before the event of the
\* selection the listener moves
C28_ModelRelaysChanges ==
    /\ countOf(emitted, onChanged) = countOf(events, onChanged)
    /\ countOf(emitted, onSelectionChanged) = fired
    /\ \A i \in DOMAIN emitted :
           emitted[i].name \in Relayed_names =>
               i + 1 \in DOMAIN emitted /\ emitted[i + 1] = modelChanged
    /\ \A i, j \in DOMAIN emitted :
           (emitted[i].name = "onExpansionChanged" /\ emitted[j] = onSelectionChanged /\ i < j)
               => \E k \in (i + 1)..(j - 1) : emitted[k] = modelChanged

\* collapseNode(1.2.1) was called while a node below 1.2.1 was selected: the
\* TreeModel fired onChanged for the expansion change, the listener moved
\* the selection to 1.2.1, and the TreeModel fired onChanged for that
C28_Witness ==
    /\ lastCall = Call("collapse", "1.2.1", NoType)
    /\ fired = 1
    /\ state = <<Sel("1.2.1", TOGGLE)>>
    /\ emitted = <<expansionChanged("1.2.1"), modelChanged, onSelectionChanged, modelChanged>>

-----------------------------------------------------------------------------
(* The entries handleRange keeps *)

\* the stack holds entries and its top is a TOGGLE
topIsToggle(stack) == stack # <<>> /\ stack[Len(stack)].type = TOGGLE

\* C29 as stated: nextState(RANGE ...) on a non-empty stack whose top is a
\* TOGGLE returns a stack with the same first entry
C29_BottomEntryKept ==
    \A n \in FixtureTargets :
        topIsToggle(state) => nextState(Tree, state, Sel(n, RANGE))[1] = state[1]

\* what C29 says of the stack res that RANGE of node n returns: the new
\* RANGE entry is on top, the old top right below it, and the bottom entry
\* is the old one unless the range held its node and it was not the top
anchorKept(n, res, range) ==
    /\ Len(res) >= 2
    /\ res[Len(res)] = Sel(n, RANGE)
    /\ res[Len(res) - 1] = state[Len(state)]
    /\ res[1] # state[1] => (Len(state) >= 2 /\ state[1].node \in Range(range))

\* C29: when handleRange merges the TOGGLE entries inside the new range, the
\* top entry of the stack, which anchors the range, is never removed: the
\* stack returned by nextState(RANGE ...) on a non-empty stack whose top is a
\* TOGGLE holds that entry right below the new RANGE entry; the bottom entry
\* is removed only when it is not the top and its node lies inside the range
C29_AnchorKept ==
    \A n \in FixtureTargets :
        topIsToggle(state) =>
            anchorKept(n, nextState(Tree, state, Sel(n, RANGE)),
                       selectionRange(Tree, lastSelection(state), n))

\* the state holds the toggles of 1.2 and, on top, of 1.1: RANGE of 1.3, whose
\* range from 1.1 holds 1.2, removes the bottom entry and keeps the top one
C29_Witness ==
    /\ lastCall = Call("nextState", "1.1", TOGGLE)
    /\ state = <<Sel("1.2", TOGGLE), Sel("1.1", TOGGLE)>>
    /\ "1.2" \in Range(selectionRange(Tree, "1.1", "1.3"))
    /\ nextState(Tree, state, Sel("1.3", RANGE)) = <<Sel("1.1", TOGGLE), Sel("1.3", RANGE)>>

\* C30: an addSelection call that changes the selection (it fires the
\* selection event) leaves flagged exactly the nodes that were flagged and
\* are not in the old selected set without the new one, together with the
\* nodes of the new selected set without the old one: selected = false on
\* old \ new, selected = true on new \ old, every other flag as it was.
flipped(old, new) ==
    /\ \A n \in old \ new : n \notin selected'
    /\ \A n \in new \ old : n \in selected'
    /\ \A n \in Nodes \ ((old \ new) \cup (new \ old)) : (n \in selected') = (n \in selected)

C30_FlagsFlipOnDifference ==
    [][(lastCall'.op = "addSelection" /\ fired' = 1)
         => flipped(selectedSet(Tree, state), selectedSet(Tree, state'))]_vars

\* 1.2 and 1.2.3 were selected by TOGGLE; a second TOGGLE of 1.2.3 has changed
\* the selection: it has unselected 1.2.3 and left the flag of 1.2 as it was
C30_Witness ==
    /\ lastCall = Call("addSelection", "1.2.3", TOGGLE)
    /\ fired = 1
    /\ state = <<Sel("1.2", TOGGLE)>>
    /\ selected = {"1.2"}

\* C31: nextState never modifies the state it is called on: whatever the
\* selection, the selection stack of the receiver is the same sequence of
\* entries after the call as before, and it yields the same selected nodes.
unmodified(after) == after = state /\ selectedNodes(Tree, after) = selectedNodes(Tree, state)

noDuplicates(sel) == \A i, j \in DOMAIN sel : sel[i] = sel[j] => i = j

C32_SelectedNodesUnique == noDuplicates(selectedNodes(Tree, state))

\* 1.3 is a TOGGLE entry and the end of the range from 1.1: the array the
\* replay builds holds it twice, selectedNodes() once
C32_Witness ==
    /\ state = <<Sel("1.3", TOGGLE), Sel("1.1", TOGGLE), Sel("1.3", RANGE)>>
    /\ ~noDuplicates(replayStack(Tree, state, Len(state)))
    /\ Len(selectedNodes(Tree, state)) < Len(replayStack(Tree, state, Len(state)))

\* C33: a RANGE action applied to the empty selection state selects nothing:
\* the selectedNodes() of the resulting state is empty, and through the
\* selection service the call fires no onSelectionChanged event and leaves
\* the held state empty (and every flag as it was), so that a later RANGE
\* still has no anchor.
rangeOnEmpty(n) ==
    /\ nextState(Tree, state, Sel(n, RANGE)) = <<Sel(n, RANGE)>>
    /\ selectedNodes(Tree, nextState(Tree, state, Sel(n, RANGE))) = <<>>
    /\ state' = <<>>
    /\ fired' = 0
    /\ selected' = selected

C33_RangeOnEmptySelectsNothing ==
    [][(lastCall'.op = "addSelection" /\ lastCall'.type = RANGE /\ state = <<>>)
         => rangeOnEmpty(lastCall'.node)]_vars

\* two RANGE selections in a row on the empty state: the second one found
\* the state as empty as the first
C33_Witness ==
    /\ lastCall = Call("addSelection", "1.3", RANGE)
    /\ state = <<>>
    /\ fired = 0
    /\ selected = {}
    /\ validateNode(Tree, "1.3") = "1.3"

\* C34: expanding a node never changes the selection, and collapsing a node
\* that is not an ancestor of the selected node (the selected node itself
\* included) never changes it either: selectedNodes() and every selected
\* flag are the same after the expansion event is handled as before.
keepsSelection ==
    /\ selectedNodes(Tree', state') = selectedNodes(Tree, state)
    /\ selected' = selected

C34_ExpansionKeepsSelection ==
    [][(\/ lastCall'.op = "expand"
        \/ /\ lastCall'.op = "collapse"
           /\ ~isAncestor(resolveNode(lastCall'.node), selectedNode(Tree, state)))
         => keepsSelection]_vars

\* C35: navigateForward when there is no forward entry and navigateBackward
\* when there is no backward entry are no-ops: the root of the tree, the
\* selection and every expanded flag are unchanged; canNavigateForward() and
\* canNavigateBackward() return false exactly in those situations.
noForward == navigation.index >= Len(navigation.nodes)
noBackward == navigation.index <= 1

atTheBounds ==
    /\ canNavigateForward(navigation) <=> ~noForward
    /\ canNavigateBackward(navigation) <=> ~noBackward
    /\ (lastCall'.op = "navigateForward" /\ noForward)
         => UNCHANGED <<root, expanded, state, selected, navigation>>
    /\ (lastCall'.op = "navigateBackward" /\ noBackward)
         => UNCHANGED <<root, expanded, state, selected, navigation>>

C35_NoOpAtTheBounds == [][atTheBounds]_vars

\* the history holds 1.2 alone, 1.2.1 was selected next to it: a
\* navigateForward has left the root, the selection and the history alone
C35_Witness ==
    /\ lastCall = Call("navigateForward", None, NoType)
    /\ navigation = [nodes |-> <<"1.2">>, index |-> 1]
    /\ root = "1.2"
    /\ state = <<Sel("1.2", TOGGLE), Sel("1.2.1", TOGGLE)>>
    /\ ~canNavigateForward(navigation) /\ ~canNavigateBackward(navigation)

\* C36: every node returned by selectionRange(from, to) lies between from
\* and to (inclusive) in the depth-first pre-order of the tree, for every
\* pair of valid nodes, also when one of the two is hidden inside a collapsed
\* subtree and never met by the pruned traversal: a range never runs on to
\* the end of the tree.
withinEnds(range, order, a, b) == Range(range) \subseteq Between(order, a, b)

C36_RangeWithinEnds ==
    \A a, b \in nodes : withinEnds(selectionRange(Tree, a, b), preOrder(Tree), a, b)

\* C37: after any sequence of addSelection calls, refreshes that replace
\* children, and root assignments, every node returned by the selection
\* service's selectedNodes() is a valid node of the current tree:
\* validateNode returns that same node for it.
allValid(sel) == \A i \in DOMAIN sel : validateNode(Tree, sel[i]) = sel[i]

C37_SelectedNodesValid == allValid(selectedNodes(Tree, state))

\* C38: in every state held by the selection service after any sequence of
\* addSelection calls, the stack never starts with a RANGE entry and never
\* has two RANGE entries next to each other: each RANGE entry is immediately
\* preceded by a TOGGLE entry, its anchor.
anchored(stack) ==
    \A i \in DOMAIN stack :
        stack[i].type = RANGE => (i > 1 /\ stack[i - 1].type = TOGGLE)

C38_RangeHasAnchor == anchored(state)

\* the held stack has two RANGE entries, each right above a TOGGLE, the
\* second one made by the last call
C38_Witness ==
    /\ lastCall = Call("addSelection", "1.3", RANGE)
    /\ fired = 1
    /\ Len(state) = 4
    /\ state[2].type = RANGE
    /\ state[4] = Sel("1.3", RANGE)

\* C39: the value of the selection service's selectedNodes() changes only
\* together with an onSelectionChanged event: a step that fires none, be it
\* an expand, a collapse, a refresh or a root assignment, leaves
\* selectedNodes() returning the same set.
sameSelectedSet == selectedSet(Tree', state') = selectedSet(Tree, state)

C39_ChangesOnlyWithEvent == [][fired' = 0 => sameSelectedSet]_vars

=============================================================================
